---- MODULE Spec2Model ----
(***************************************************************************)
(* Due: the event dispatch of a two-party conversation (due/episode.py).   *)
(*                                                                         *)
(* LiveEpisode.add_event is modelled one loop iteration per step, with     *)
(* the position of the call in pc; AsyncLiveEpisode.add_event and the      *)
(* notification task async_event_callback are one step each (neither has   *)
(* a suspension point).                                                    *)
(***************************************************************************)
EXTENDS Integers, Sequences, FiniteSets, TLC

\* ------------------------------------------------------------------ bounds
\* number of external add_event calls explored
MaxEmits == 2
\* length of the log up to which asynchronous notification tasks are run
MaxAsyncLog == 5

\* ------------------------------------------------------- program constants
MAX_EVENT_RESPONSES == 200

Utterance == "utterance"
Leave == "leave"
Action == "action"
EventTypes == {Utterance, Leave, Action}
\* the types of the events that callers pass to add_event directly
EmitTypes == {Utterance, Leave}

\* value of Event.acted before mark_acted
Null == 0

\* the two Agent objects of a LiveEpisode, and the identities in use;
\* "c" is an identity that no participant of the episode has
Handles == {"alice", "bob"}
Ids == {"a", "b", "c"}

\* what a participant's event_callback returns for an Utterance
Policies == {"silent", "one", "two", "stranger", "mixed"}

VARIABLES
    mode,          \* "sync": LiveEpisode, "async": AsyncLiveEpisode
    agent_id,      \* Agent.id of each Agent object
    policy,        \* behaviour of each Agent object's event_callback
    self_id,       \* Episode.id of the live Episode
    self_timestamp, \* Episode.timestamp of the live Episode
    starter_id, invited_id, starter, invited, agent_by_id,
    events,        \* Episode.events
    acted,         \* Event.acted of every Event object created so far, by uid
    clock,         \* datetime.now()
    pc,            \* position of the running LiveEpisode.add_event call
    new_events,    \* its local queue
    count,         \* its local counter
    tasks,         \* tasks created on the event loop and not run yet
    emits,         \* history: the external add_event calls
    calls,         \* history: the event_callback invocations, with the
                   \* log's last event and the event's acted as seen there
    runs,          \* per Action object: how often run() was called, and the
                   \* length of the log at the last call
    issued,        \* history: the Agent.do and Agent.act_events calls
    ep,            \* a plain Episode object (save, load, last_event, ==)
    op,            \* the operation last applied to it, with its arguments
    res            \* what that operation returned or raised

vars == <<mode, agent_id, policy, self_id, self_timestamp, starter_id,
          invited_id, starter, invited, agent_by_id, events, acted, clock, pc, new_events, count, tasks,
          emits, calls, runs, issued, ep, op, res>>

config == <<mode, agent_id, policy>>
episode_meta == <<self_id, self_timestamp, starter_id, invited_id, starter,
                  invited, agent_by_id>>
agents == <<runs, issued>>
codec == <<ep, op, res>>

\* Python's None
PyNone == [k |-> "None"]

\* ----------------------------------------------------------------- helpers
Last(s) == s[Len(s)]

IsPrefix(s, t) == /\ Len(s) =< Len(t)
                  /\ \A i \in 1..Len(s) : s[i] = t[i]

\* Event objects are told apart by uid; uids are handed out in creation order
NextUid == Len(acted) + 1

Event(uid, type, agent) == [uid |-> uid, type |-> type, agent |-> agent]

\* self.events.append(e)
events_prepend(evs, e) == <<e>> \o evs
events_replace(evs, e) == <<e>>
events_append(evs, e) == Append(evs, e)

\* self.events.extend(new_events)
events_extend_none(evs, es) == evs
events_extend(evs, es) == evs \o es

\* Event.mark_acted(): self.acted = datetime.now()
mark_acted_never(act, e, now) == act
mark_acted_every(act, e, now) == [u \in 1..Len(act) |-> now]
mark_acted(act, e, now) == [act EXCEPT ![e.uid] = now]

\* [e.mark_acted() for e in new_events]
mark_all_skipped(act, es, now) == act
\* (the i-th event of the list is marked at now + i - 1)
mark_all(act, es, now) ==
    [u \in 1..Len(act) |->
        IF \E i \in 1..Len(es) : es[i].uid = u
        THEN LET last == CHOOSE i \in 1..Len(es) :
                             /\ es[i].uid = u
                             /\ \A j \in (i + 1)..Len(es) : es[j].uid # u
             IN  now + last - 1
        ELSE act[u]]

\* new_events.extend(response_events)
new_events_extend_front(q, es) == es \o q
new_events_extend(q, es) == q \o es

\* LiveEpisode.agent_by_id raises ValueError for an id that is not a key
KnownAgent(id) == id \in DOMAIN agent_by_id

\* LiveEpisode._other_agents
other_agents_same(agent) == IF agent = invited THEN <<invited>> ELSE <<starter>>
other_agents(agent) == IF agent = invited THEN <<starter>> ELSE <<invited>>

\* the loop's break condition, tested after count += 1
CapNever(c) == FALSE
CapExceeded(c) == c > MAX_EVENT_RESPONSES

\* the agents and issuers of the events a participant returns for event e
ResponseIssuers(h, e) ==
    IF e.type # Utterance THEN <<>>
    ELSE CASE policy[h] = "silent"   -> <<>>
           [] policy[h] = "one"      -> <<agent_id[h]>>
           [] policy[h] = "two"      -> <<agent_id[h], agent_id[h]>>
           [] policy[h] = "stranger" -> <<"c">>
           [] policy[h] = "mixed"    -> <<"c", agent_id[h]>>

\* Agent.event_callback(e, episode): new Event objects, uids from uid0 on
event_callback(h, e, uid0) ==
    LET iss == ResponseIssuers(h, e)
    IN  [i \in 1..Len(iss) |-> Event(uid0 + i - 1, Utterance, iss[i])]

\* -------------------------------------------------------------------- Init
\* LiveEpisode.__init__ on two Agent objects; their ids may coincide, and
\* then the invited agent is never notified (its behaviour is left silent)
\* the behaviours with two responses are explored for the invited agent
\* only, "mixed" facing a starter that does not respond
LiveEpisode_init ==
    /\ mode \in {"sync", "async"}
    /\ agent_id \in {f \in [Handles -> {"a", "b"}] : f["alice"] = "a"}
    /\ policy \in {f \in [Handles -> Policies] :
                      /\ agent_id["bob"] = "a" => f["bob"] = "silent"
                      /\ f["alice"] \notin {"two", "mixed"}
                      /\ f["bob"] = "mixed" => f["alice"] = "silent"}
    /\ starter = "alice"
    /\ invited = "bob"
    /\ self_id = "e0"
    /\ self_timestamp = 0
    /\ starter_id = agent_id[starter]
    /\ invited_id = agent_id[invited]
    /\ agent_by_id = [i \in {agent_id[starter], agent_id[invited]} |->
                         IF i = agent_id[invited] THEN invited ELSE starter]
    /\ events = <<>>
    /\ acted = <<>>
    /\ clock = 1
    /\ pc = "idle"
    /\ new_events = <<>>
    /\ count = 0
    /\ tasks = <<>>
    /\ emits = <<>>
    /\ calls = <<>>
    /\ runs = <<>>
    /\ issued = <<>>

\* the dispatcher runs; no plain Episode is under test
Init ==
    /\ LiveEpisode_init
    /\ ep = PyNone
    /\ op = <<"none">>
    /\ res = PyNone

\* ------------------------------------------------ LiveEpisode.add_event
\* the call: new_events = [event]; count = 0
Emit(type, agent) ==
    /\ mode = "sync"
    /\ pc = "idle"
    /\ Len(emits) < MaxEmits
    /\ LET e == Event(NextUid, type, agent)
       IN  /\ acted' = Append(acted, Null)
           /\ new_events' = <<e>>
           /\ emits' = Append(emits, [event |-> e, base |-> Len(events),
                                      outcome |-> "running", pending |-> <<>>,
                                      dropped |-> <<>>,
                                      end |-> Len(events)])
    /\ count' = 0
    /\ pc' = "loop"
    /\ UNCHANGED <<agents, codec, config, episode_meta, events, clock, tasks, calls>>

\* history: how the running call ended and the length of the log then
Ended(o, evs) ==
    [emits EXCEPT ![Len(emits)].outcome = o, ![Len(emits)].end = Len(evs)]
\* history: the call ended with an exception, its local queue is lost
Raised(evs, queue) ==
    [Ended("raised", evs) EXCEPT ![Len(emits)].dropped = queue]

\* one iteration whose agent_by_id lookup raises: the call ends there
LoopRaiseAfterAppend ==
    /\ pc = "loop"
    /\ new_events # <<>>
    /\ ~KnownAgent(Head(new_events).agent)
    /\ events' = events_append(events, Head(new_events))
    /\ acted' = mark_acted(acted, Head(new_events), clock)
    /\ clock' = clock + 1
    /\ pc' = "idle"
    /\ new_events' = <<>>
    /\ count' = 0
    /\ emits' = Raised(events', new_events)
    /\ UNCHANGED <<agents, codec, config, episode_meta, tasks, calls>>

LoopRaise ==
    /\ pc = "loop"
    /\ new_events # <<>>
    /\ ~KnownAgent(Head(new_events).agent)
    /\ pc' = "idle"
    /\ new_events' = <<>>
    /\ count' = 0
    /\ emits' = Raised(events, new_events)
    /\ UNCHANGED <<agents, codec, config, episode_meta, events, acted, clock, tasks, calls>>

\* one full iteration of the while loop
LoopBody ==
    /\ pc = "loop"
    /\ new_events # <<>>
    /\ KnownAgent(Head(new_events).agent)
    /\ LET e == Head(new_events)
           agent == agent_by_id[e.agent]
           a == other_agents(agent)[1]
           response_events == event_callback(a, e, NextUid)
           appended == events_append(events, e)
           marked == mark_acted(acted, e, clock)
       IN  /\ events' = appended
           /\ acted' = marked \o [i \in 1..Len(response_events) |-> Null]
           /\ clock' = clock + 1
           /\ calls' = Append(calls, [to |-> a, event |-> e,
                                      at |-> Len(events) + 1,
                                      emit |-> Len(emits),
                                      last |-> Last(appended),
                                      acted_at |-> marked[e.uid],
                                      resp |-> response_events])
           /\ new_events' = new_events_extend(Tail(new_events), response_events)
    /\ count' = count + 1
    /\ pc' = IF CapExceeded(count') THEN "break" ELSE "loop"
    /\ emits' = IF CapExceeded(count')
                THEN [emits EXCEPT ![Len(emits)].pending = new_events']
                ELSE emits
    /\ UNCHANGED <<agents, codec, config, episode_meta, tasks>>

\* after the loop: self.events.extend(new_events), mark them, return
AfterLoop ==
    /\ \/ pc = "break"
       \/ pc = "loop" /\ new_events = <<>>
    /\ events' = events_extend(events, new_events)
    /\ acted' = mark_all(acted, new_events, clock)
    /\ clock' = clock + Len(new_events)
    /\ pc' = "idle"
    /\ new_events' = <<>>
    /\ count' = 0
    /\ emits' = Ended("returned", events')
    /\ UNCHANGED <<agents, codec, config, episode_meta, tasks, calls>>

\* ------------------------------------------- AsyncLiveEpisode.add_event
\* the part of the dispatcher's state that add_event touches
AsyncState == [events |-> events, acted |-> acted, clock |-> clock,
               tasks |-> tasks, raised |-> FALSE]

\* (a variant in which a Leave event retracts the tasks created so far)
async_add_event_leave_cancels(st, e) ==
    LET appended == [st EXCEPT !.events = events_append(st.events, e),
                               !.acted = mark_acted(st.acted, e, st.clock),
                               !.clock = st.clock + 1]
    IN  IF ~KnownAgent(e.agent)
        THEN [appended EXCEPT !.raised = TRUE]
        ELSE [appended EXCEPT !.tasks =
                 Append(IF e.type = Leave THEN <<>> ELSE st.tasks,
                        [agent |-> other_agents(agent_by_id[e.agent])[1],
                         event |-> e])]

\* append, mark acted, look the issuer up (ValueError if unknown), and
\* create the notification task for the other participant
\* (first a variant that stops notifying once the log has
\* MAX_EVENT_RESPONSES events, and one that leaves the event unmarked)
async_add_event_capped(st, e) ==
    LET appended == [st EXCEPT !.events = events_append(st.events, e),
                               !.acted = mark_acted(st.acted, e, st.clock),
                               !.clock = st.clock + 1]
    IN  IF ~KnownAgent(e.agent)
        THEN [appended EXCEPT !.raised = TRUE]
        ELSE IF Len(appended.events) >= MAX_EVENT_RESPONSES
        THEN appended
        ELSE [appended EXCEPT !.tasks = Append(st.tasks,
                 [agent |-> other_agents(agent_by_id[e.agent])[1],
                  event |-> e])]

async_add_event_unmarked(st, e) ==
    LET appended == [st EXCEPT !.events = events_append(st.events, e)]
    IN  IF ~KnownAgent(e.agent)
        THEN [appended EXCEPT !.raised = TRUE]
        ELSE [appended EXCEPT !.tasks = Append(st.tasks,
                 [agent |-> other_agents(agent_by_id[e.agent])[1],
                  event |-> e])]

async_add_event(st, e) ==
    LET appended == [st EXCEPT !.events = events_append(st.events, e),
                               !.acted = mark_acted(st.acted, e, st.clock),
                               !.clock = st.clock + 1]
    IN  IF ~KnownAgent(e.agent)
        THEN [appended EXCEPT !.raised = TRUE]
        ELSE [appended EXCEPT !.tasks = Append(st.tasks,
                 [agent |-> other_agents(agent_by_id[e.agent])[1],
                  event |-> e])]

\* for e in response_events: self.add_event(e); an exception ends the task
add_responses_first_only(st, es) ==
    IF es = <<>> THEN st ELSE async_add_event(st, Head(es))
RECURSIVE add_responses_reversed(_, _)
add_responses_reversed(st, es) ==
    IF es = <<>> \/ st.raised THEN st
    ELSE add_responses_reversed(async_add_event(st, es[Len(es)]),
                                SubSeq(es, 1, Len(es) - 1))
RECURSIVE add_responses(_, _)
add_responses(st, es) ==
    IF es = <<>> \/ st.raised THEN st
    ELSE add_responses(async_add_event(st, Head(es)), Tail(es))

\* an external add_event call on the asynchronous dispatcher
AsyncEmit(type, agent) ==
    /\ mode = "async"
    /\ Len(emits) < MaxEmits
    /\ LET e == Event(NextUid, type, agent)
           st == async_add_event(
                     [AsyncState EXCEPT !.acted = Append(acted, Null)], e)
       IN  /\ events' = st.events
           /\ acted' = st.acted
           /\ clock' = st.clock
           /\ tasks' = st.tasks
           /\ emits' = Append(emits, [event |-> e, base |-> Len(events),
                          outcome |-> IF st.raised THEN "raised" ELSE "returned",
                          pending |-> <<>>, dropped |-> <<>>,
                          end |-> Len(st.events)])
    /\ UNCHANGED <<agents, codec, config, episode_meta, pc, new_events, count, calls>>

RemoveAt(s, i) == SubSeq(s, 1, i - 1) \o SubSeq(s, i + 1, Len(s))

\* the event loop runs one created task: async_event_callback(agent, event),
\* explored while the log is shorter than log_bound
async_event_callback(i, log_bound) ==
    /\ mode = "async"
    /\ i \in 1..Len(tasks)
    /\ Len(events) < log_bound
    /\ LET t == tasks[i]
           response_events == event_callback(t.agent, t.event, NextUid)
           st == add_responses(
                     [AsyncState EXCEPT
                         !.tasks = RemoveAt(tasks, i),
                         !.acted = acted \o [k \in 1..Len(response_events) |-> Null]],
                     response_events)
       IN  /\ events' = st.events
           /\ acted' = st.acted
           /\ clock' = st.clock
           /\ tasks' = st.tasks
           /\ calls' = Append(calls, [to |-> t.agent, event |-> t.event,
                                      at |-> Len(events), emit |-> 0,
                                      last |-> Last(events),
                                      acted_at |-> acted[t.event.uid],
                                      resp |-> response_events])
    /\ UNCHANGED <<agents, codec, config, episode_meta, pc, new_events, count, emits>>

RunTask(i) == async_event_callback(i, MaxAsyncLog)

Next ==
    \/ \E t \in EmitTypes, a \in Ids : Emit(t, a)
    \/ LoopRaise
    \/ LoopBody
    \/ AfterLoop
    \/ \E t \in EmitTypes, a \in Ids : AsyncEmit(t, a)
    \/ \E i \in 1..Len(tasks) : RunTask(i)

Spec == Init /\ [][Next]_vars

\* the synchronous dispatcher alone
SyncInit == Init /\ mode = "sync"
SyncNext ==
    \/ \E t \in EmitTypes, a \in Ids : Emit(t, a)
    \/ LoopRaise
    \/ LoopBody
    \/ AfterLoop

\* a synchronous add_event call that has started keeps running: nothing
\* else runs on its thread
LiveSpec ==
    SyncInit /\ [][SyncNext]_vars /\ WF_vars(LoopRaise \/ LoopBody \/ AfterLoop)

\* the asynchronous dispatcher alone
AsyncInit == Init /\ mode = "async"
AsyncNext ==
    \/ \E t \in EmitTypes, a \in Ids : AsyncEmit(t, a)
    \/ \E i \in 1..Len(tasks) : RunTask(i)

\* the event loop runs every task that has been created
FairSpec ==
    AsyncInit /\ [][AsyncNext]_vars /\ WF_vars(\E i \in 1..Len(tasks) : RunTask(i))

\* ================================================================= claims
Range(s) == {s[i] : i \in 1..Len(s)}
Registered(id) == id \in {starter_id, invited_id}
Silent == \A h \in Handles : policy[h] = "silent"
Acted(e) == acted[e.uid] # Null
\* no synchronous call is in progress
Quiet == pc = "idle"
EventsOf(rs) == [i \in 1..Len(rs) |-> rs[i].event]
Returned(r) == r.outcome = "returned"
\* the event_callback invocations made with event e during call k
CallsWith(k, e) == {c \in 1..Len(calls) : calls[c].emit = k /\ calls[c].event = e}

\* C1: on the synchronous dispatcher with participants that never respond,
\* after any number of add_event calls the log is exactly the events of
\* those calls, in call order (every call by a participant returns; a call
\* with an unregistered issuer raises and contributes nothing).
C1_LogIsTheEmittedSequence ==
    (mode = "sync" /\ Quiet /\ Silent) =>
        /\ \A k \in 1..Len(emits) :
               Registered(emits[k].event.agent) => Returned(emits[k])
        /\ events = EventsOf(SelectSeq(emits, Returned))

C1_Witness ==
    /\ mode = "sync" /\ Quiet /\ Silent
    /\ Len(emits) = 2
    /\ Len(events) = 2
    /\ events[1].agent # events[2].agent

\* C2: on the synchronous dispatcher with two distinct participants, by the
\* time an add_event call with a participant's event has ended, the other
\* participant's event_callback has been invoked with that event exactly
\* once, during that call.
C2_OtherNotifiedExactlyOnce ==
    (mode = "sync" /\ starter_id # invited_id) =>
        \A k \in 1..Len(emits) :
            (Registered(emits[k].event.agent) /\ emits[k].outcome # "running") =>
                /\ Cardinality(CallsWith(k, emits[k].event)) = 1
                /\ \A c \in 1..Len(calls) :
                       calls[c].event = emits[k].event =>
                           /\ calls[c].emit = k
                           /\ calls[c].to \in {starter, invited}
                           /\ agent_id[calls[c].to] # emits[k].event.agent

C2_Witness ==
    /\ mode = "sync" /\ starter_id # invited_id /\ Quiet
    /\ Len(emits) = 1
    /\ emits[1].event.agent = "a"
    /\ Returned(emits[1])
    /\ \E c \in 1..Len(calls) : calls[c].to = "bob" /\ calls[c].event = emits[1].event

\* C3: with two participants that answer every utterance with one utterance,
\* one seed utterance on the synchronous dispatcher appends exactly
\* MAX_EVENT_RESPONSES events and the call returns without raising.
C3_CascadeAppendsExactlyCap ==
    (/\ mode = "sync" /\ Quiet
     /\ starter_id # invited_id
     /\ \A h \in Handles : policy[h] = "one"
     /\ Len(emits) = 1
     /\ emits[1].event.type = Utterance
     /\ Registered(emits[1].event.agent)) =>
        /\ Returned(emits[1])
        /\ Len(events) = MAX_EVENT_RESPONSES

\* C4: whenever no add_event call is in progress (after any call, on either
\* dispatcher), every event in the log has acted set, including responses
\* and the events appended after the response cap was hit.
C4_LoggedEventsAreActed ==
    Quiet => \A i \in 1..Len(events) : Acted(events[i])

C4_Witness ==
    /\ mode = "sync" /\ Quiet
    /\ emits # <<>>
    /\ Returned(Last(emits))
    /\ Last(emits).pending # <<>>
    /\ Len(events) > MAX_EVENT_RESPONSES

\* C5: a synchronous add_event call whose event has an issuer that is not a
\* registered participant raises, and the log is the same after the call as
\* before it.
C5_UnknownIssuerRaisesLogUnchanged ==
    [][(mode = "sync") =>
         /\ (pc = "idle" /\ pc' = "loop") => events' = events
         /\ (pc = "loop" /\ count = 0 /\ ~Registered(Last(emits).event.agent)) =>
                /\ pc' = "idle"
                /\ Last(emits').outcome = "raised"
                /\ events' = events]_vars

C5_Witness ==
    /\ mode = "sync" /\ Quiet
    /\ emits # <<>>
    /\ ~Registered(Last(emits).event.agent)
    /\ Last(emits).outcome = "raised"
    /\ events # <<>>

\* C6: on either dispatcher, every event in the log was issued by one of
\* the two registered participants.
C6_OnlyParticipantsInLog ==
    \A i \in 1..Len(events) : Registered(events[i].agent)

\* C7: the log is append-only: every step of either dispatcher, in calls
\* that return and in calls that raise, leaves the previous log as a prefix
\* of the new one.
C7_LogIsAppendOnly ==
    [][IsPrefix(events, events')]_vars

C7_Witness ==
    \E k \in 1..Len(emits) :
        /\ emits[k].outcome = "raised"
        /\ emits[k].base > 0
        /\ emits[k].end > emits[k].base

\* C8: a synchronous add_event call that hits the response cap with events
\* still pending returns without raising; the pending events are at the end
\* of what the call appended, in queue order, each acted, and none of them
\* has been delivered to an event_callback.
C8_PendingAtCapRecordedNotDelivered ==
    \A k \in 1..Len(emits) :
        (/\ mode = "sync"
         /\ emits[k].pending # <<>>
         /\ (k < Len(emits) \/ Quiet)) =>
            LET r == emits[k]
                delivered == {calls[c].event : c \in 1..Len(calls)}
            IN  /\ Returned(r)
                /\ r.end - Len(r.pending) >= r.base
                /\ SubSeq(events, r.end - Len(r.pending) + 1, r.end) = r.pending
                /\ Range(r.pending) \cap delivered = {}

C8_Witness ==
    /\ mode = "sync" /\ Quiet
    /\ emits # <<>>
    /\ Len(Last(emits).pending) >= 2
    /\ Returned(Last(emits))

\* C9: every synchronous add_event call ends: the loop runs at most
\* MAX_EVENT_RESPONSES + 1 times, and the call returns only when the queue
\* has emptied or the cap has been passed.
C9_SyncEmitTerminates ==
    /\ (pc # "idle") ~> (pc = "idle")
    /\ [](count =< MAX_EVENT_RESPONSES + 1)
    /\ [][(pc # "idle" /\ pc' = "idle" /\ Returned(Last(emits'))) =>
            (new_events = <<>> \/ count > MAX_EVENT_RESPONSES)]_vars

C9_Witness ==
    /\ mode = "sync" /\ Quiet
    /\ \A h \in Handles : policy[h] \in {"one", "two"}
    /\ Len(emits) = 2
    /\ Returned(emits[1]) /\ Returned(emits[2])
    /\ emits[1].pending # <<>> /\ emits[2].pending # <<>>

\* C10: on the asynchronous dispatcher every add_event (external, or made
\* by a notification task for a response) appends the event with acted set
\* and invokes no event_callback with it; for a registered issuer the
\* notification of the other participant is left as a created task.
C10_AsyncEmitAppendsAndDefers ==
    [][(mode = "async") =>
         /\ Len(calls') =< Len(calls) + 1
         /\ (emits' # emits) =>
                /\ calls' = calls
                /\ events' = Append(events, Last(emits').event)
         /\ \A i \in (Len(events) + 1)..Len(events') :
                /\ acted'[events'[i].uid] # Null
                /\ \A c \in 1..Len(calls') : calls'[c].event # events'[i]
                /\ Registered(events'[i].agent) =>
                       \E t \in 1..Len(tasks') :
                           /\ tasks'[t].event = events'[i]
                           /\ tasks'[t].agent \in {starter, invited}]_vars

C10_Witness ==
    /\ mode = "async"
    /\ Len(emits) = 1
    /\ Returned(emits[1])
    /\ events = <<emits[1].event>>
    /\ Acted(emits[1].event)
    /\ calls = <<>>
    /\ Len(tasks) = 1

\* the events that have been passed to an event_callback, and those of the
\* created tasks
Delivered == {calls[c].event : c \in 1..Len(calls)}
Scheduled == {tasks[t].event : t \in 1..Len(tasks)}
\* response j of invocation c comes after a response with an unregistered
\* issuer in the same returned list
AfterRejected(c, j) ==
    \E k \in 1..(j - 1) : ~Registered(calls[c].resp[k].agent)

\* C11 (as stated): on the asynchronous dispatcher, once the event loop has
\* run every task, every logged event of a registered issuer has been
\* delivered exactly once and every response event that a handler returned
\* is in the log and has been notified in turn.
C11_EveryResponseAppendedAndNotified ==
    (mode = "async" /\ tasks = <<>>) =>
        /\ \A i \in 1..Len(events) :
               Registered(events[i].agent) =>
                   Cardinality({c \in 1..Len(calls) : calls[c].event = events[i]}) = 1
        /\ \A c \in 1..Len(calls) : \A j \in 1..Len(calls[c].resp) :
               /\ calls[c].resp[j] \in Range(events)
               /\ calls[c].resp[j] \in Delivered

\* C11 (amended): under a fair event loop every logged event of a registered
\* issuer is delivered exactly once, to a participant other than its issuer;
\* the responses of an invocation that come before the first one with an
\* unregistered issuer are appended, and none that comes after it is; the
\* loop runs tasks until none is left (or the model's log bound is reached).
C11_FairDeliveryUntilRejected ==
    /\ [](mode = "async" =>
            /\ \A i \in 1..Len(events) :
                   Registered(events[i].agent) =>
                       /\ Cardinality({c \in 1..Len(calls) : calls[c].event = events[i]})
                              + Cardinality({t \in 1..Len(tasks) : tasks[t].event = events[i]}) = 1
                       /\ \A c \in 1..Len(calls) :
                              calls[c].event = events[i] =>
                                  /\ calls[c].to \in {starter, invited}
                                  /\ starter_id # invited_id =>
                                         agent_id[calls[c].to] # events[i].agent
            /\ \A c \in 1..Len(calls) : \A j \in 1..Len(calls[c].resp) :
                   /\ (\A k \in 1..j : Registered(calls[c].resp[k].agent)) =>
                          calls[c].resp[j] \in Range(events)
                   /\ AfterRejected(c, j) =>
                          calls[c].resp[j] \notin Range(events))
    /\ (mode = "async" /\ tasks # <<>>)
           ~> (tasks = <<>> \/ Len(events) >= MaxAsyncLog)

C11_Witness ==
    /\ mode = "async"
    /\ tasks = <<>>
    /\ \E c \in 1..Len(calls) :
           /\ Len(calls[c].resp) = 2
           /\ \A j \in 1..2 : Registered(calls[c].resp[j].agent)
           /\ \A j \in 1..2 : calls[c].resp[j] \in Delivered

\* C12: on the asynchronous dispatcher the events of one participant are in
\* the log in the order of the add_event calls that submitted them (an
\* Event object is created by the code that submits it, so uids grow in
\* call order), whatever the order in which the tasks are run.
C12_ParticipantStreamInCallOrder ==
    mode = "async" =>
        \A i, j \in 1..Len(events) :
            (i < j /\ events[i].agent = events[j].agent
                   /\ Registered(events[i].agent)) =>
                events[i].uid < events[j].uid

C12_Witness ==
    /\ mode = "async"
    /\ \E c1, c2 \in 1..Len(calls) :
           c1 < c2 /\ calls[c1].event.uid > calls[c2].event.uid
    /\ \E i, j \in 1..Len(events) :
           /\ i < j
           /\ events[i].agent = events[j].agent
           /\ Registered(events[i].agent)
           /\ \E c \in 1..Len(calls) : events[j] \in Range(calls[c].resp)

\* ==================================================== plain Episode, codec
\* Python values are records tagged with their class in field k, so that
\* values of different classes can be compared.  Objects whose identity
\* matters (Event, Action) carry an object id, oid.
\* ------------------------------------------------------------------ bounds
\* number of events in the Episode under test
MaxCodecEvents == 2

Str(s) == [k |-> "str", s |-> s]
\* a str that the code parses, as its sequence of characters
Text(chars) == [k |-> "str", chars |-> chars]
Datetime(t) == [k |-> "datetime", t |-> t]
Number(n) == [k |-> "number", n |-> n]
List(items) == [k |-> "list", items |-> items]
\* an exception of class cls propagating out of a call
Raise(cls) == [k |-> "raise", error |-> cls]
\* a live participant handle: an Agent object
AgentObject(h) == [k |-> "Agent", handle |-> h]

isinstance(v, cls) == v.k = cls
IsRaise(v) == v.k = "raise"
\* x is computed and, unless it raised, Then(x) is: the statements of a
\* function body in sequence
Try(x, Then(_)) == IF IsRaise(x) THEN x ELSE Then(x)
\* try: x / except error: Handler
Except(x, error, Handler) == IF x = Raise(error) THEN Handler ELSE x
\* bool(v): None, the empty str and 0 are false
Truthy(v) ==
    CASE v.k = "None" -> FALSE
      [] v.k = "str" -> v # Str("") /\ v # Text(<<>>)
      [] v.k = "number" -> v.n # 0
      [] OTHER -> TRUE

\* members of the enum Event.Type, by name, and their values
EventTypeValue == [Utterance |-> Utterance, Leave |-> Leave, Action |-> Action]
EventType(name) == [k |-> "Event.Type", name |-> name]
EventTypeMembers == {EventType(n) : n \in DOMAIN EventTypeValue}
\* Event.Type(value): lookup of the member by value
Event_Type_ignore_case(value) ==
    IF value \in {Str(v) : v \in {"utterance", "Utterance", "UTTERANCE"}}
    THEN EventType("Utterance")
    ELSE IF value \in {Str(v) : v \in {"leave", "Leave"}} THEN EventType("Leave")
    ELSE IF value \in {Str(v) : v \in {"action", "Action"}} THEN EventType("Action")
    ELSE Raise("ValueError")
Event_Type(value) ==
    IF \E n \in DOMAIN EventTypeValue : value = Str(EventTypeValue[n])
    THEN EventType(CHOOSE n \in DOMAIN EventTypeValue :
                       value = Str(EventTypeValue[n]))
    ELSE Raise("ValueError")
\* member.value
type_value(member) == Str(EventTypeValue[member.name])

\* ---------------------------------------------------------- due/action.py
RecordedAction(oid, done) == [k |-> "RecordedAction", oid |-> oid, done |-> done]
ExampleAction(oid) == [k |-> "ExampleAction", oid |-> oid]
IsAction(v) == v.k \in {"RecordedAction", "ExampleAction"}
Dict(class, data) == [k |-> "dict", class |-> class, data |-> data]
DoneDict(done) == [k |-> "dict", done |-> done]

full_class_name(v) == Str(IF v.k = "RecordedAction" THEN "due.action.RecordedAction"
                          ELSE "due.action.ExampleAction")

\* Action.save, RecordedAction.save; None and str have no save attribute
Action_save(self) ==
    CASE self.k = "RecordedAction" -> Dict(full_class_name(self), DoneDict(self.done))
      [] self.k = "ExampleAction" -> Dict(full_class_name(self), PyNone)
      [] OTHER -> Raise("AttributeError")

\* RecordedAction.__init__: self.done = data['done'] if data else False
RecordedAction_init(oid, data) ==
    IF data.k = "dict" THEN RecordedAction(oid, data.done)
    ELSE IF Truthy(data) THEN Raise("TypeError")
    ELSE RecordedAction(oid, FALSE)

\* Action.load: dynamic_import(saved_action['class'])(saved_action['data']);
\* ExampleAction has no __init__ that takes the data argument
Action_load(saved_action, oid) ==
    IF saved_action.k # "dict" THEN Raise("TypeError")
    ELSE CASE saved_action.class = Str("due.action.RecordedAction") ->
                  RecordedAction_init(oid, saved_action.data)
           [] saved_action.class = Str("due.action.ExampleAction") ->
                  Raise("TypeError")
           [] OTHER -> Raise("AttributeError")

\* -------------------------------------------------------- due/util/time.py
DigitChars == <<"0", "1", "2", "3", "4", "5", "6", "7", "8", "9">>
IsDigit(c) == \E d \in 1..Len(DigitChars) : DigitChars[d] = c
DigitValue(c) == (CHOOSE d \in 1..Len(DigitChars) : DigitChars[d] = c) - 1
\* str.isdigit()
isdigit(chars) == chars # <<>> /\ \A i \in 1..Len(chars) : IsDigit(chars[i])
\* int(str) of a digit string
RECURSIVE int(_)
int(chars) ==
    IF chars = <<>> THEN 0
    ELSE 10 * int(SubSeq(chars, 1, Len(chars) - 1)) + DigitValue(Last(chars))
\* str(int)
RECURSIVE Decimal(_)
Decimal(n) ==
    IF n < 10 THEN <<DigitChars[n + 1]>>
    ELSE Append(Decimal(n \div 10), DigitChars[(n % 10) + 1])

\* a datetime is the number of seconds since a fixed instant; its ISO string
\* is written as the letter T followed by that number
\* datetime.isoformat()
isoformat(dt) == Text(<<"T">> \o Decimal(dt.t))
\* datetime.fromisoformat(s)
fromisoformat(s) ==
    IF ~isinstance(s, "str") THEN Raise("TypeError")
    ELSE IF /\ "chars" \in DOMAIN s
            /\ s.chars # <<>>
            /\ Head(s.chars) = "T"
            /\ isdigit(Tail(s.chars))
         THEN Datetime(int(Tail(s.chars)))
         ELSE Raise("ValueError")

convert_datetime(timestamp) ==
    IF isinstance(timestamp, "datetime") THEN timestamp
    ELSE fromisoformat(timestamp)

\* seconds in a day, an hour, a minute (datetime.timedelta)
SecondsPerDay == 86400
SecondsPerHour == 3600
SecondsPerMinute == 60
UnitSeconds == [d |-> SecondsPerDay, h |-> SecondsPerHour,
                m |-> SecondsPerMinute, s |-> 1]
TIMEDELTA_UNITS == <<"d", "h", "m", "s">>

\* length of the longest prefix of chars made of digits
RECURSIVE DigitPrefix(_)
DigitPrefix(chars) ==
    IF chars = <<>> \/ ~IsDigit(Head(chars)) THEN 0
    ELSE 1 + DigitPrefix(Tail(chars))
\* does (\d+)<unit> match at the start of chars
UnitMatches(chars, unit) ==
    LET n == DigitPrefix(chars)
    IN  n > 0 /\ Len(chars) > n /\ chars[n + 1] = unit
\* the groups (?:(\d+)d)?(?:(\d+)h)?(?:(\d+)m)?(?:(\d+)s)? matched from the
\* start of chars, units taken from position u on: the seconds they add up to
RECURSIVE MatchGroups(_, _)
MatchGroups(chars, u) ==
    IF u > Len(TIMEDELTA_UNITS) THEN 0
    ELSE IF UnitMatches(chars, TIMEDELTA_UNITS[u])
         THEN LET n == DigitPrefix(chars)
              IN  int(SubSeq(chars, 1, n)) * UnitSeconds[TIMEDELTA_UNITS[u]]
                  + MatchGroups(SubSeq(chars, n + 2, Len(chars)), u + 1)
         ELSE MatchGroups(chars, u + 1)
\* re.match(TIMEDELTA_PATTERN, delta): the lookahead (?=\d+[dhms])
TIMEDELTA_PATTERN(chars) ==
    \E u \in 1..Len(TIMEDELTA_UNITS) : UnitMatches(chars, TIMEDELTA_UNITS[u])

\* parse_timedelta: the timedelta, as a number of seconds
parse_timedelta(delta) ==
    IF ~(isinstance(delta, "number") \/ isinstance(delta, "str"))
    THEN Raise("AssertionError")
    ELSE IF isinstance(delta, "number") THEN delta
    ELSE IF "chars" \notin DOMAIN delta THEN Raise("ValueError")
    ELSE IF isdigit(delta.chars) THEN Number(int(delta.chars))
    ELSE IF ~TIMEDELTA_PATTERN(delta.chars) THEN Raise("ValueError")
    ELSE Number(MatchGroups(delta.chars, 1))

\* ----------------------------------------------------------- due/event.py
\* the Event object oid made by Event(type, timestamp, agent, payload)
Event_init(oid, type, timestamp, agent, payload) ==
    IF ~isinstance(timestamp, "datetime") THEN Raise("ValueError")
    ELSE IF Truthy(agent) /\ ~isinstance(agent, "str") THEN Raise("ValueError")
    ELSE [k |-> "Event", oid |-> oid, type |-> type, timestamp |-> timestamp,
          agent |-> agent, payload |-> payload, acted |-> PyNone]

\* Event.mark_acted(timestamp)
Event_mark_acted(self, timestamp) == [self EXCEPT !.acted = timestamp]

\* Event.save: _replace builds the tuple without running __init__
Event_save(self) ==
    Try(IF self.type = EventType("Action") THEN Action_save(self.payload)
        ELSE self.payload,
        LAMBDA payload :
            [k |-> "dict", type |-> type_value(self.type),
             timestamp |-> isoformat(self.timestamp),
             agent |-> self.agent, payload |-> payload])

\* Event.load; the arguments of Event(...) are evaluated left to right
Event_load(saved, oid) ==
    Try(Event_Type(saved.type), LAMBDA type :
    Try(convert_datetime(saved.timestamp), LAMBDA timestamp :
    Try(IF saved.type = Str(Action)
        THEN Action_load(saved.payload, <<oid[1], oid[2], "payload">>)
        ELSE saved.payload, LAMBDA payload :
        Event_init(oid, type, timestamp, saved.agent, payload))))

\* Event.clone: Event(*list(self)); the new object is oid
Event_clone_same_object(self, oid) == self
Event_clone(self, oid) ==
    Event_init(oid, self.type, self.timestamp, self.agent, self.payload)

\* a == b on two field values: the same object is equal to itself;
\* RecordedAction.__eq__ reads other.done; every other class in use
\* compares by value, and ExampleAction by identity
HasOid(v) == "oid" \in DOMAIN v
PyEq(a, b) ==
    IF HasOid(a) /\ HasOid(b) /\ a.oid = b.oid THEN "True"
    ELSE IF a.k = "RecordedAction" \/ b.k = "RecordedAction"
         THEN IF a.k = b.k THEN (IF a.done = b.done THEN "True" ELSE "False")
              ELSE "AttributeError"
    ELSE IF a.k = "ExampleAction" \/ b.k = "ExampleAction" THEN "False"
    ELSE IF a = b THEN "True" ELSE "False"

\* the items of the EventTuple, in order
EventTuple_with_acted(e) == <<e.type, e.timestamp, e.agent, e.payload, e.acted>>
EventTuple(e) == <<e.type, e.timestamp, e.agent, e.payload>>
\* tuple.__eq__: items are compared in order up to the first that differs
RECURSIVE tuple_eq(_, _)
tuple_eq(x, y) ==
    IF Len(x) # Len(y) THEN "False"
    ELSE IF x = <<>> THEN "True"
    ELSE LET c == PyEq(Head(x), Head(y))
         IN  IF c = "True" THEN tuple_eq(Tail(x), Tail(y)) ELSE c
\* Event == Event
Event_eq(a, b) ==
    IF a.oid = b.oid THEN "True" ELSE tuple_eq(EventTuple(a), EventTuple(b))

\* --------------------------------------------------------- due/episode.py
\* a list comprehension [f(x) for x in xs] whose items have been computed:
\* the list, or the first exception raised
Comprehension(items) ==
    LET bad == {i \in 1..Len(items) : IsRaise(items[i])}
    IN  IF bad = {} THEN List(items)
        ELSE items[CHOOSE i \in bad : \A j \in bad : i =< j]

\* str(x)
str(x) ==
    CASE x.k = "str" -> x
      [] x.k = "None" -> Str("None")
      [] OTHER -> Str("<object>")

\* json.dumps(x): the JSON text of x; json.loads(s)
json_dumps(x) == [k |-> "str", json |-> x]
json_loads(s) ==
    IF ~isinstance(s, "str") THEN Raise("TypeError")
    ELSE IF "json" \in DOMAIN s THEN s.json
    ELSE Raise("JSONDecodeError")

\* pandas: DataFrame.to_csv writes None as an empty field, and a row as its
\* four fields separated by '|' (a field that holds the separator or a
\* quote is quoted); a line of the CSV text is modelled as its four fields
to_csv_field(x) == IF x = PyNone THEN Str("") ELSE x
to_csv_line(e) == <<to_csv_field(e.type), to_csv_field(e.timestamp),
                    to_csv_field(e.agent), to_csv_field(e.payload)>>
\* pandas.read_csv: the default na_values (the empty field among them)
NaTokens == {Str(""), Text(<<>>), Str("NA"), Str("NULL"), Str("NaN"),
             Str("nan"), Str("null"), Str("N/A"), Str("n/a")}
IsNa(field) == field \in NaTokens
\* a column whose fields are all numbers or missing is read as numbers
NumericColumn(lines, c) ==
    /\ \A i \in 1..Len(lines) :
           \/ IsNa(lines[i][c])
           \/ "chars" \in DOMAIN lines[i][c] /\ isdigit(lines[i][c].chars)
    /\ \E i \in 1..Len(lines) : ~IsNa(lines[i][c])
\* df.replace({np.nan: None}): a missing field is None
read_csv_field(lines, i, c) ==
    IF IsNa(lines[i][c]) THEN PyNone
    ELSE IF NumericColumn(lines, c) THEN Number(int(lines[i][c].chars))
    ELSE lines[i][c]
read_csv(lines) ==
    IF lines = <<>> THEN Raise("EmptyDataError")
    ELSE List([i \in 1..Len(lines) |->
                  [k |-> "dict",
                   type |-> read_csv_field(lines, i, 1),
                   timestamp |-> read_csv_field(lines, i, 2),
                   agent |-> read_csv_field(lines, i, 3),
                   payload |-> read_csv_field(lines, i, 4)]])

_compact_saved_event(e) ==
    IF e.type = Str(Action) THEN [e EXCEPT !.payload = json_dumps(e.payload)]
    ELSE e

_compact_saved_episode(saved_episode) ==
    [saved_episode EXCEPT
        !.events = [i \in 1..Len(saved_episode.events) |->
                       to_csv_line(_compact_saved_event(saved_episode.events[i]))],
        !.format = "compact"]

\* datetime + timedelta
datetime_add(dt, delta) == Datetime(dt.t + delta.n)

_uncompact_timestamp_absolute_only(compact_event, last_timestamp) ==
    convert_datetime(compact_event.timestamp)
_uncompact_timestamp(compact_event, last_timestamp) ==
    Except(convert_datetime(compact_event.timestamp), "ValueError",
           Try(parse_timedelta(compact_event.timestamp), LAMBDA delta :
               datetime_add(last_timestamp, delta)))

_uncompact_saved_event(compact_event, last_timestamp) ==
    Try(_uncompact_timestamp(compact_event, last_timestamp), LAMBDA timestamp :
    Try(IF compact_event.type = Str(Action)
        THEN json_loads(compact_event.payload)
        ELSE compact_event.payload, LAMBDA payload :
        [compact_event EXCEPT !.timestamp = timestamp, !.payload = payload]))

\* the loop of _uncompact_saved_episode over the records of the table
RECURSIVE uncompact_events(_, _)
uncompact_events(compact_events, last_timestamp) ==
    IF compact_events = <<>> THEN List(<<>>)
    ELSE Try(_uncompact_saved_event(Head(compact_events), last_timestamp),
             LAMBDA e_new :
         Try(uncompact_events(Tail(compact_events), e_new.timestamp),
             LAMBDA rest : List(<<e_new>> \o rest.items)))

_uncompact_saved_episode(compact_episode) ==
    Try(read_csv(compact_episode.events), LAMBDA df :
    Try(convert_datetime(compact_episode.timestamp), LAMBDA last_timestamp :
    Try(uncompact_events(df.items, last_timestamp), LAMBDA uncompacted :
        [compact_episode EXCEPT !.events = uncompacted.items,
                                !.format = "standard"])))

\* Episode(starter_agent_id, invited_agent_id), with the id and the
\* timestamp that __init__ draws given as arguments
Episode(id, timestamp, starter_agent_id, invited_agent_id) ==
    [k |-> "Episode", id |-> id, timestamp |-> timestamp,
     starter_id |-> starter_agent_id, invited_id |-> invited_agent_id,
     events |-> <<>>]

\* list == list: lists of different lengths are unequal; otherwise the
\* items are compared in order up to the first pair that differs
RECURSIVE list_eq(_, _)
list_eq(x, y) ==
    IF Len(x) # Len(y) THEN "False"
    ELSE IF x = <<>> THEN "True"
    ELSE LET c == Event_eq(Head(x), Head(y))
         IN  IF c = "True" THEN list_eq(Tail(x), Tail(y)) ELSE c

\* Episode.__eq__
Episode_eq(self, other) ==
    IF ~isinstance(other, "Episode") THEN "False"
    ELSE IF self.starter_id # other.starter_id THEN "False"
    ELSE IF self.invited_id # other.invited_id THEN "False"
    ELSE IF self.id # other.id THEN "False"
    ELSE IF self.timestamp # other.timestamp THEN "False"
    ELSE list_eq(self.events, other.events)

\* Episode.last_event; event_type is None, a member of Event.Type or a
\* collection of members
\* event_type is None or e.type in event_type, a single member standing
\* for the tuple that holds it
event_type_matches(e, event_type) ==
    \/ event_type = PyNone
    \/ isinstance(event_type, "Event.Type") /\ e.type = event_type
    \/ isinstance(event_type, "list") /\ e.type \in event_type.items
RECURSIVE last_event_from_start(_, _)
last_event_from_start(evs, event_type) ==
    IF evs = <<>> THEN PyNone
    ELSE IF event_type_matches(Head(evs), event_type) THEN Head(evs)
    ELSE last_event_from_start(Tail(evs), event_type)
RECURSIVE last_event(_, _)
last_event(evs, event_type) ==
    IF evs = <<>> THEN PyNone
    ELSE IF event_type_matches(Last(evs), event_type) THEN Last(evs)
    ELSE last_event(SubSeq(evs, 1, Len(evs) - 1), event_type)

\* Episode.save
Episode_save(self, output_format) ==
    Try(Comprehension([i \in 1..Len(self.events) |-> Event_save(self.events[i])]),
        LAMBDA saved :
            LET result == [k |-> "dict", id |-> self.id,
                           timestamp |-> self.timestamp,
                           starter_agent |-> str(self.starter_id),
                           invited_agents |-> <<str(self.invited_id)>>,
                           events |-> saved.items, format |-> "standard"]
            IN  IF output_format = "compact" THEN _compact_saved_episode(result)
                ELSE result)

\* Episode.load; the new Event objects are <<"loaded", i>>
Episode_load(saved_episode) ==
    Try(IF saved_episode.format = "compact"
        THEN _uncompact_saved_episode(saved_episode)
        ELSE saved_episode, LAMBDA standard :
    Try(convert_datetime(standard.timestamp), LAMBDA timestamp :
    Try(Comprehension([i \in 1..Len(standard.events) |->
                          Event_load(standard.events[i], <<"loaded", i>>)]),
        LAMBDA loaded :
            [Episode(standard.id, timestamp, standard.starter_agent,
                     standard.invited_agents[1])
                EXCEPT !.events = loaded.items])))

\* ------------------------------------------ the Episode under test: inputs
\* datetime.now() when the Episode is created, and the timestamps of events
EpisodeTime == Datetime(100)
EventTimes == {Datetime(160), Datetime(175)}
FirstEventTime == CHOOSE t \in EventTimes : \A u \in EventTimes : t.t =< u.t
ActedTime == Datetime(200)

\* agent and payload of the utterances
Said == {<<Str("a"), Str("hi")>>, <<Str("a"), Str("")>>,
         <<Str("a"), Str("null")>>, <<Str(""), Str("hi")>>,
         <<PyNone, Str("hi")>>}
\* the payloads of Action events, created as the objects <<"ep", i, "payload">>
Done(i) == {RecordedAction(<<"ep", i, "payload">>, d) : d \in BOOLEAN}
               \cup {ExampleAction(<<"ep", i, "payload">>), PyNone}

\* the Event objects that may be appended as the i-th event
NewEvents(i) ==
    LET oid == <<"ep", i>>
    IN  {Event_init(oid, EventType("Utterance"), FirstEventTime, ap[1], ap[2]) :
             ap \in Said}
        \cup {Event_init(oid, EventType("Utterance"), t, Str("a"), Str("hi")) :
                  t \in EventTimes}
        \cup {Event_init(oid, EventType("Action"), FirstEventTime, Str("a"), p) :
                  p \in Done(i)}
        \cup {Event_init(oid, EventType("Leave"), FirstEventTime, Str("b"), PyNone)}

Result(v) == [k |-> "result", v |-> v]

CodecInit ==
    /\ LiveEpisode_init
    /\ mode = "sync"
    /\ agent_id["bob"] = "b"
    /\ Silent
    /\ ep = Episode(Str("e1"), EpisodeTime, Str("a"), Str("b"))
    /\ op = <<"none">>
    /\ res = PyNone

dispatcher == <<config, episode_meta, events, acted, clock, pc, new_events,
                count, tasks, emits, calls, agents>>

\* e = Event(...); optionally e.mark_acted(...); episode.events.append(e);
\* the events of an Episode that was live are all acted, those of one built
\* by hand or loaded are all not
AppendEvent(e, mark) ==
    /\ op = <<"none">>
    /\ Len(ep.events) < MaxCodecEvents
    /\ ep.events # <<>> => mark = (ep.events[1].acted # PyNone)
    /\ ep' = [ep EXCEPT !.events =
                 Append(@, IF mark THEN Event_mark_acted(e, ActedTime) ELSE e)]
    /\ UNCHANGED <<op, res, dispatcher>>

\* Episode.load(episode.save(output_format))
SaveLoad(output_format) ==
    /\ op = <<"none">>
    /\ op' = <<"save_load", output_format>>
    /\ res' = Try(Episode_save(ep, output_format), Episode_load)
    /\ UNCHANGED <<ep, dispatcher>>

\* timestamps written by hand into a compact row, relative to the row before
RelativeTokens == {<<"5", "s">>, <<"1", "5">>, <<"2", "m">>}

\* Episode.load of the compact form of the Episode, after the timestamp of
\* its i-th line has been rewritten as a relative one
LoadRelative(i, token) ==
    /\ op = <<"none">>
    /\ i \in 1..Len(ep.events)
    /\ ~IsRaise(Episode_save(ep, "compact"))
    /\ res' = Episode_load([Episode_save(ep, "compact")
                               EXCEPT !.events[i][2] = Text(token)])
    /\ op' = <<"load_relative", i, token>>
    /\ UNCHANGED <<ep, dispatcher>>

\* Episode.load of the compact form of the Episode, after the timestamps of
\* its lines from the i-th on have been rewritten as relative ones
LoadRelativeFrom(i, token) ==
    /\ op = <<"none">>
    /\ i \in 1..Len(ep.events)
    /\ ~IsRaise(Episode_save(ep, "compact"))
    /\ res' = Episode_load([Episode_save(ep, "compact") EXCEPT
                   !.events = [j \in 1..Len(@) |->
                                  IF j < i THEN @[j]
                                  ELSE [@[j] EXCEPT ![2] = Text(token)]]])
    /\ op' = <<"load_relative_from", i, token>>
    /\ UNCHANGED <<ep, dispatcher>>

\* timestamps that are neither ISO strings nor plain integers nor tokens made
\* of the units d, h, m, s in that order: no unit, text after the units,
\* units in another order
UnparsableTokens == {<<"x">>, <<"5", "s", "x">>, <<"5", "s", "2", "m">>}

\* Episode.load of the compact form of the Episode, after the timestamp of
\* its i-th line has been rewritten as one of the unparsable tokens
LoadUnparsable(i, token) ==
    /\ op = <<"none">>
    /\ i \in 1..Len(ep.events)
    /\ ~IsRaise(Episode_save(ep, "compact"))
    /\ res' = Episode_load([Episode_save(ep, "compact")
                               EXCEPT !.events[i][2] = Text(token)])
    /\ op' = <<"load_unparsable", i, token>>
    /\ UNCHANGED <<ep, dispatcher>>

\* the event_type arguments of last_event: none, a member, collections
Filters == {PyNone} \cup EventTypeMembers
               \cup {List(S) : S \in {{}, EventTypeMembers,
                                      {EventType("Leave")},
                                      {EventType("Utterance"), EventType("Action")}}}

\* episode.last_event(event_type)
LastEvent(event_type) ==
    /\ op = <<"none">>
    /\ res' = last_event(ep.events, event_type)
    /\ op' = <<"last_event", event_type>>
    /\ UNCHANGED <<ep, dispatcher>>

\* another Event object with the fields of e, not acted; an Action payload
\* is another object too
OtherEvent(e, i) ==
    [e EXCEPT !.oid = <<"other", i>>,
              !.acted = PyNone,
              !.payload = IF HasOid(@)
                          THEN [@ EXCEPT !.oid = <<"other", i, "payload">>]
                          ELSE @]
\* the Episodes that the Episode under test is compared with: itself, one
\* rebuilt from its fields, and ones that differ from it in one place
Others ==
    LET n == Len(ep.events)
        copy == [ep EXCEPT !.events = [i \in 1..n |-> OtherEvent(ep.events[i], i)]]
    IN  {ep, copy,
         [copy EXCEPT !.id = Str("e2")],
         [copy EXCEPT !.timestamp = ActedTime],
         [copy EXCEPT !.starter_id = Str("c")],
         [copy EXCEPT !.invited_id = Str("c")],
         [copy EXCEPT !.events = Append(@, OtherEvent(CHOOSE e \in NewEvents(n + 1) : TRUE, n + 1))]}
        \cup (IF n = 0 THEN {}
              ELSE {[copy EXCEPT !.events = SubSeq(@, 1, n - 1)]}
                   \cup {[copy EXCEPT !.events[n] = OtherEvent(e, n)] :
                             e \in NewEvents(n)})

\* episode == other
Equals(other) ==
    /\ op = <<"none">>
    /\ res' = Result(Episode_eq(ep, other))
    /\ op' = <<"eq", other>>
    /\ UNCHANGED <<ep, dispatcher>>

\* episode.events[i].clone(); the object called on is part of the result
\* so that a change to it would show
Clone(i) ==
    /\ op = <<"none">>
    /\ i \in 1..Len(ep.events)
    /\ res' = Event_clone(ep.events[i], <<"clone", i>>)
    /\ op' = <<"clone", i>>
    /\ UNCHANGED <<ep, dispatcher>>

\* the timestamp and agent arguments that Event(...) is called with
TimestampArguments == {EpisodeTime, isoformat(EpisodeTime), PyNone, Number(100)}
AgentArguments == {Str("a"), Str(""), PyNone, AgentObject("alice"),
                   Number(0), Number(7)}

\* Event(Event.Type.Utterance, timestamp, agent, "hi")
CreateEvent(timestamp, agent) ==
    /\ op = <<"none">>
    /\ ep.events = <<>>
    /\ res' = Event_init(<<"new", 1>>, EventType("Utterance"), timestamp, agent,
                         Str("hi"))
    /\ op' = <<"Event", timestamp, agent>>
    /\ UNCHANGED <<ep, dispatcher>>

\* the type tags written into saved events
TypeTags == {Str(t) : t \in EventTypes \cup {"Utterance", "LEAVE", "say", ""}}

\* Event.load of the saved i-th event with its type rewritten
EventLoad(i, tag) ==
    /\ op = <<"none">>
    /\ i \in 1..Len(ep.events)
    /\ ~IsRaise(Event_save(ep.events[i]))
    /\ res' = Event_load([Event_save(ep.events[i]) EXCEPT !.type = tag],
                         <<"loaded", i>>)
    /\ op' = <<"event_load", i, tag>>
    /\ UNCHANGED <<ep, dispatcher>>

\* Episode.load of the saved Episode with the type of its i-th event
\* rewritten
LoadTagged(output_format, i, tag) ==
    /\ op = <<"none">>
    /\ i \in 1..Len(ep.events)
    /\ ~IsRaise(Episode_save(ep, output_format))
    /\ res' = Episode_load(
                  IF output_format = "compact"
                  THEN [Episode_save(ep, output_format) EXCEPT !.events[i][1] = tag]
                  ELSE [Episode_save(ep, output_format) EXCEPT !.events[i].type = tag])
    /\ op' = <<"load_tagged", output_format, i, tag>>
    /\ UNCHANGED <<ep, dispatcher>>

CodecNext ==
    \/ \E e \in NewEvents(Len(ep.events) + 1), mark \in BOOLEAN :
           AppendEvent(e, mark)
    \/ \E output_format \in {"standard", "compact"} : SaveLoad(output_format)
    \/ \E i \in 1..MaxCodecEvents, token \in RelativeTokens :
           LoadRelative(i, token)
    \/ \E event_type \in Filters : LastEvent(event_type)
    \/ \E other \in Others : Equals(other)
    \/ \E i \in 1..MaxCodecEvents : Clone(i)
    \/ \E timestamp \in TimestampArguments, agent \in AgentArguments :
           CreateEvent(timestamp, agent)
    \/ \E i \in 1..MaxCodecEvents, tag \in TypeTags : EventLoad(i, tag)
    \/ \E output_format \in {"standard", "compact"}, i \in 1..MaxCodecEvents,
          tag \in TypeTags : LoadTagged(output_format, i, tag)

CodecSpec == CodecInit /\ [][CodecNext]_vars

\* compact episodes whose timestamp fields are written by hand
CompactNext ==
    \/ \E e \in NewEvents(Len(ep.events) + 1), mark \in BOOLEAN :
           AppendEvent(e, mark)
    \/ \E i \in 1..MaxCodecEvents, token \in RelativeTokens :
           LoadRelative(i, token)
    \/ \E i \in 1..MaxCodecEvents, token \in RelativeTokens :
           LoadRelativeFrom(i, token)
    \/ \E i \in 1..MaxCodecEvents, token \in UnparsableTokens :
           LoadUnparsable(i, token)

CompactSpec == CodecInit /\ [][CompactNext]_vars

\* ============================================================ codec claims
Applied(name) == op[1] = name
\* load(save(ep, output_format)), computed again
Reloaded(output_format) ==
    Try(Episode_save(ep, output_format), Episode_load)

\* the payload of every Action event is an Action object
ActionsHaveActions ==
    \A i \in 1..Len(ep.events) :
        ep.events[i].type = EventType("Action") => IsAction(ep.events[i].payload)

\* C13: for every Episode with a mix of Utterance, Action and Leave events,
\* Episode.load(episode.save('standard')) is an Episode that compares equal
\* to the saved one.
C13_StandardRoundTrip ==
    (Applied("save_load") /\ op[2] = "standard" /\ ActionsHaveActions) =>
        /\ isinstance(res, "Episode")
        /\ Episode_eq(res, ep) = "True"

\* C14: for every Episode, including empty and None payloads and agent ids,
\* loading its compact form gives the same as loading its standard form:
\* two equal Episodes, or a failure of both.
C14_CompactEqualsStandard ==
    (Applied("save_load") /\ op[2] = "compact") =>
        LET standard == Reloaded("standard")
        IN  \/ IsRaise(res) /\ IsRaise(standard)
            \/ /\ isinstance(res, "Episode")
               /\ isinstance(standard, "Episode")
               /\ Episode_eq(res, standard) = "True"

\* C15: in a compact log that can be loaded, a row whose timestamp is "5s"
\* and that follows a row with the absolute timestamp T is loaded as an
\* event with timestamp T + 5 seconds.
C15_RelativeRowAddsToPreviousRow ==
    (/\ Applied("load_relative")
     /\ op[2] > 1
     /\ op[3] = <<"5", "s">>
     /\ ~IsRaise(Reloaded("compact"))) =>
        /\ isinstance(res, "Episode")
        /\ Len(res.events) = Len(ep.events)
        /\ res.events[op[2]].timestamp
               = Datetime(ep.events[op[2] - 1].timestamp.t + 5)

C15_Witness ==
    /\ Applied("load_relative")
    /\ op[2] > 1
    /\ op[3] = <<"5", "s">>
    /\ isinstance(res, "Episode")
    /\ res.events[op[2]].timestamp # ep.events[op[2]].timestamp

\* C16: last_event() returns the last element of events, last_event(filter)
\* with a single type or a collection of types returns the event at the
\* greatest index whose type is in the filter; it returns None when there
\* is no such event, and it leaves the Episode as it was.
FilterTypes(event_type) ==
    IF event_type = PyNone THEN EventTypeMembers
    ELSE IF event_type \in EventTypeMembers THEN {event_type}
    ELSE event_type.items
C16_LastEventIsLatestMatch ==
    /\ [](Applied("last_event") =>
            LET matching == {i \in 1..Len(ep.events) :
                                ep.events[i].type \in FilterTypes(op[2])}
            IN  IF matching = {} THEN res = PyNone
                ELSE /\ \E i \in matching : /\ res = ep.events[i]
                                            /\ \A j \in matching : j =< i
                     /\ (op[2] = PyNone => res = Last(ep.events)))
    /\ [][Applied("last_event")' => ep' = ep]_vars

C16_Witness ==
    /\ Applied("last_event")
    /\ isinstance(op[2], "list")
    /\ \E i \in 1..Len(ep.events) :
           /\ i < Len(ep.events)
           /\ Last(ep.events).type \notin op[2].items
           /\ res = ep.events[i]

\* C17: two Episodes compare equal exactly when their starter_id,
\* invited_id, id and timestamp are equal and their events have the same
\* length and are pairwise equal, two events being equal exactly when
\* their type, timestamp, agent and payload are equal; acted takes no part.
EventFieldsEqual(a, b) ==
    /\ PyEq(a.type, b.type) = "True"
    /\ PyEq(a.timestamp, b.timestamp) = "True"
    /\ PyEq(a.agent, b.agent) = "True"
    /\ PyEq(a.payload, b.payload) = "True"
C17_EqualIffFieldsEqual ==
    Applied("eq") =>
        LET other == op[2]
        IN  (res = Result("True")) <=>
                /\ ep.starter_id = other.starter_id
                /\ ep.invited_id = other.invited_id
                /\ ep.id = other.id
                /\ ep.timestamp = other.timestamp
                /\ Len(ep.events) = Len(other.events)
                /\ \A i \in 1..Len(ep.events) :
                       EventFieldsEqual(ep.events[i], other.events[i])

\* a log whose events are acted equals a log of other, unacted Event objects
C17_Witness ==
    /\ Applied("eq")
    /\ res = Result("True")
    /\ Len(ep.events) = MaxCodecEvents
    /\ \A i \in 1..Len(ep.events) :
           /\ ep.events[i].acted # PyNone
           /\ op[2].events[i].acted = PyNone
           /\ op[2].events[i].oid # ep.events[i].oid

\* C18: clone() of an event, acted or not, returns another Event object
\* with the same type, timestamp, agent and payload and with acted unset,
\* and leaves the event it was called on as it was.
C18_CloneIsEqualAndNotActed ==
    /\ [](Applied("clone") =>
            LET self == ep.events[op[2]]
            IN  /\ isinstance(res, "Event")
                /\ res.oid # self.oid
                /\ EventTuple(res) = EventTuple(self)
                /\ Event_eq(res, self) = "True"
                /\ res.acted = PyNone)
    /\ [][Applied("clone")' => ep' = ep]_vars

C18_Witness ==
    /\ Applied("clone")
    /\ ep.events[op[2]].acted # PyNone
    /\ ep.events[op[2]].payload.k = "ExampleAction"
    /\ res.acted = PyNone

\* C19: Event(...) raises ValueError whenever the timestamp is not a
\* datetime or the agent is given (is not None) and is not a str; an Event
\* that is created has acted unset.
C19_CreationValidatesTimestampAndAgent ==
    Applied("Event") =>
        LET timestamp == op[2]
            agent == op[3]
        IN  /\ (\/ ~isinstance(timestamp, "datetime")
                \/ agent # PyNone /\ ~isinstance(agent, "str"))
                   => res = Raise("ValueError")
            /\ isinstance(res, "Event") => res.acted = PyNone

\* C20: loading a saved event whose type is not exactly "utterance",
\* "action" or "leave" raises ValueError, and loading a saved Episode, of
\* either format, that holds such an event raises instead of returning an
\* Episode.
C20_UnknownTypeFailsLoad ==
    /\ (Applied("event_load") /\ op[3] \notin {Str(t) : t \in EventTypes})
           => res = Raise("ValueError")
    /\ (Applied("load_tagged") /\ op[4] \notin {Str(t) : t \in EventTypes})
           => IsRaise(res)

C20_Witness ==
    /\ Applied("load_tagged")
    /\ op[2] = "standard"
    /\ op[3] = MaxCodecEvents
    /\ op[4] = Str("Utterance")
    /\ ep.events[1].type = EventType("Utterance")
    /\ res = Raise("ValueError")

\* ================================================ dispatchers, continued
\* the event_callback invocations made during synchronous call k
CallsOf(k) == {c \in 1..Len(calls) : calls[c].emit = k}

\* C22: every dispatcher has two distinct participant identities:
\* starter_id differs from invited_id in every reachable state.
C22_DistinctParticipantIdentities ==
    starter_id # invited_id

\* C23: within one synchronous add_event call at most MAX_EVENT_RESPONSES
\* events are popped from the queue and delivered to an event_callback (the
\* counter of the call counts them).
C23_AtMostCapDeliveriesPerEmit ==
    (mode = "sync" /\ emits # <<>>) =>
        /\ count =< MAX_EVENT_RESPONSES
        /\ Cardinality(CallsOf(Len(emits))) =< MAX_EVENT_RESPONSES

\* the events that synchronous call k has appended so far
AppendedBy(k) ==
    SubSeq(events, emits[k].base + 1,
           IF emits[k].outcome = "running" THEN Len(events) ELSE emits[k].end)

\* the Event objects of one synchronous call are created in the order in
\* which they are queued (the seed, then each returned list in turn), so a
\* sequence is in queue order when its uids count up from the seed's
InQueueOrder(k, evs) ==
    \A i \in 1..Len(evs) : evs[i].uid = emits[k].event.uid + i - 1

\* C24: within one synchronous add_event call the events enter the log in
\* the order in which they were queued, and the queue continues that order;
\* in particular Utterance(a) with b answering one utterance and a silent
\* gives a log of the two utterances, both acted, the answer last.
C24_CascadeIsFirstInFirstOut ==
    mode = "sync" =>
        /\ \A k \in 1..Len(emits) : InQueueOrder(k, AppendedBy(k))
        /\ pc # "idle" =>
               InQueueOrder(Len(emits), AppendedBy(Len(emits)) \o new_events)
        /\ (/\ Quiet
            /\ starter_id # invited_id
            /\ policy["alice"] = "silent" /\ policy["bob"] = "one"
            /\ Len(emits) = 1
            /\ emits[1].event.type = Utterance
            /\ emits[1].event.agent = "a") =>
               /\ Len(events) = 2
               /\ events[1] = emits[1].event
               /\ events[2].type = Utterance /\ events[2].agent = "b"
               /\ calls[1].resp = <<events[2]>>
               /\ Acted(events[1]) /\ Acted(events[2])
               /\ Last(events) = events[2]

C24_Witness ==
    /\ mode = "sync" /\ Quiet
    /\ policy["bob"] = "two" /\ policy["alice"] = "one"
    /\ Len(emits) = 1
    /\ Returned(emits[1])
    /\ Len(events) > 4
    /\ Len(calls[1].resp) = 2
    /\ events[3] = calls[1].resp[2]
    /\ events[4] \in Range(calls[2].resp)

\* C25: no event is delivered to the participant that issued it: every
\* event_callback invocation, on either dispatcher, is made on one of the
\* two participants, whose id is not the issuer of the event.
C25_NeverDeliveredToIssuer ==
    \A c \in 1..Len(calls) :
        /\ calls[c].to \in {starter, invited}
        /\ agent_id[calls[c].to] # calls[c].event.agent

\* C26: on the synchronous dispatcher, when an event_callback is invoked
\* with an event, that event is the last one of the log and is acted.
C26_DeliveredEventIsLastAndActed ==
    mode = "sync" =>
        \A c \in 1..Len(calls) :
            /\ calls[c].last = calls[c].event
            /\ calls[c].acted_at # Null

C26_Witness ==
    /\ mode = "sync"
    /\ Len(calls) >= 2
    /\ calls[2].event \in Range(calls[1].resp)
    /\ calls[2].last = calls[2].event
    /\ calls[2].at = 2

\* C28: a synchronous add_event call that raises for a response event with
\* an unregistered issuer leaves in the log exactly the events it delivered
\* before, each acted; the offending event and the events queued behind it
\* are not in the log and are never delivered.
C28_RaiseKeepsProcessedDropsQueue ==
    mode = "sync" =>
        \A k \in 1..Len(emits) :
            (emits[k].outcome = "raised" /\ CallsOf(k) # {}) =>
                LET r == emits[k]
                    logged == Range(events)
                IN  /\ r.dropped # <<>>
                    /\ ~Registered(Head(r.dropped).agent)
                    /\ Cardinality(CallsOf(k)) = r.end - r.base
                    /\ \A c \in CallsOf(k) :
                           /\ calls[c].at \in (r.base + 1)..r.end
                           /\ events[calls[c].at] = calls[c].event
                    /\ \A i \in (r.base + 1)..r.end : Acted(events[i])
                    /\ \A j \in 1..Len(r.dropped) :
                           /\ r.dropped[j] \notin logged
                           /\ r.dropped[j] \notin Delivered

C28_Witness ==
    /\ mode = "sync" /\ Quiet
    /\ Len(emits) = 2
    /\ emits[2].outcome = "raised"
    /\ emits[2].base > 0
    /\ emits[2].end = emits[2].base + 1
    /\ Len(emits[2].dropped) = 2
    /\ Registered(emits[2].dropped[2].agent)

\* C29: on both dispatchers a response event enters the log at a later
\* index than the event whose delivery produced it (and keeps that index:
\* the log only grows), in every cascade and every order of the tasks.
C29_ResponseAfterItsCause ==
    [][/\ IsPrefix(events, events')
       /\ \A i \in (Len(events) + 1)..Len(events') :
              \A c \in 1..Len(calls') :
                  events'[i] \in Range(calls'[c].resp) =>
                      \E j \in 1..(i - 1) : events'[j] = calls'[c].event]_vars

C29_Witness ==
    /\ mode = "async"
    /\ \E c \in 1..Len(calls) : \E i, j \in 1..Len(events) :
           /\ events[i] = calls[c].event
           /\ events[j] \in Range(calls[c].resp)
           /\ j > i + 1
           /\ \E d \in 1..Len(calls) : d # c /\ events[i + 1] \in Range(calls[d].resp)

\* ------------------------------------- the asynchronous ping-pong cascade
\* length of the log up to which the cascade of one seed is followed
MaxCascadeLog == 203

\* an AsyncLiveEpisode between a and b, each answering every utterance with
\* one utterance
CascadeInit ==
    /\ Init
    /\ mode = "async"
    /\ starter_id # invited_id
    /\ \A h \in Handles : policy[h] = "one"

RunCascadeTask(i) == async_event_callback(i, MaxCascadeLog)

\* one external add_event call, then the event loop
CascadeNext ==
    \/ \E t \in EmitTypes, a \in Ids : emits = <<>> /\ AsyncEmit(t, a)
    \/ \E i \in 1..Len(tasks) : RunCascadeTask(i)

\* the event loop runs every task that has been created
CascadeSpec ==
    /\ CascadeInit
    /\ [][CascadeNext]_vars
    /\ WF_vars(\E i \in 1..Len(tasks) : RunCascadeTask(i))

\* the one external call was an utterance of a participant
Seeded ==
    /\ Len(emits) = 1
    /\ emits[1].event.type = Utterance
    /\ Registered(emits[1].event.agent)

\* C30: on the asynchronous dispatcher, with two participants that answer
\* every utterance with one utterance, after one seed utterance there is
\* always a notification task left to run, and the log grows beyond
\* MAX_EVENT_RESPONSES events.
C30_AsyncCascadeIsUncapped ==
    /\ [](Seeded => tasks # <<>>)
    /\ Seeded ~> (Len(events) > MAX_EVENT_RESPONSES)

C30_Witness ==
    /\ Seeded
    /\ Len(events) = MAX_EVENT_RESPONSES + 2
    /\ Len(calls) = MAX_EVENT_RESPONSES + 1
    /\ Len(tasks) = 1
    /\ Last(tasks).event = Last(events)

\* ----------------------------- events that are acted before add_event
\* an explicit timestamp that a caller passes to mark_acted (a past date)
PresetTime == -1

\* Event.mark_acted(timestamp):
\* self.acted = timestamp if timestamp else datetime.now()
mark_acted_at(act, e, timestamp, now) ==
    [act EXCEPT ![e.uid] = IF timestamp # Null THEN timestamp ELSE now]

\* e = Event(...); e.mark_acted(PresetTime); episode.add_event(e)
EmitMarked(type, agent) ==
    /\ mode = "sync"
    /\ pc = "idle"
    /\ Len(emits) < MaxEmits
    /\ LET e == Event(NextUid, type, agent)
       IN  /\ acted' = mark_acted_at(Append(acted, Null), e, PresetTime, clock)
           /\ new_events' = <<e>>
           /\ emits' = Append(emits, [event |-> e, base |-> Len(events),
                                      outcome |-> "running", pending |-> <<>>,
                                      dropped |-> <<>>,
                                      end |-> Len(events)])
    /\ count' = 0
    /\ pc' = "loop"
    /\ UNCHANGED <<agents, codec, config, episode_meta, events, clock, tasks, calls>>

\* episode.add_event(episode.events[i]): an Event object that a previous
\* call has appended is passed again
Reemit(i) ==
    /\ mode = "sync"
    /\ pc = "idle"
    /\ Len(emits) < MaxEmits
    /\ i \in 1..Len(events)
    /\ new_events' = <<events[i]>>
    /\ emits' = Append(emits, [event |-> events[i], base |-> Len(events),
                               outcome |-> "running", pending |-> <<>>,
                               dropped |-> <<>>,
                               end |-> Len(events)])
    /\ count' = 0
    /\ pc' = "loop"
    /\ UNCHANGED <<agents, codec, config, episode_meta, events, acted, clock, tasks, calls>>

\* the same call on an AsyncLiveEpisode
AsyncReemit(i) ==
    /\ mode = "async"
    /\ Len(emits) < MaxEmits
    /\ i \in 1..Len(events)
    /\ LET st == async_add_event(AsyncState, events[i])
       IN  /\ events' = st.events
           /\ acted' = st.acted
           /\ clock' = st.clock
           /\ tasks' = st.tasks
           /\ emits' = Append(emits, [event |-> events[i], base |-> Len(events),
                          outcome |-> IF st.raised THEN "raised" ELSE "returned",
                          pending |-> <<>>, dropped |-> <<>>,
                          end |-> Len(st.events)])
    /\ UNCHANGED <<agents, codec, config, episode_meta, pc, new_events, count, calls>>

\* the invited agent answers an utterance with at most one utterance, the
\* starter does not answer
MarkedInit ==
    /\ Init
    /\ policy["alice"] = "silent"
    /\ policy["bob"] \in {"silent", "one"}

MarkedNext ==
    \/ \E t \in EmitTypes, a \in Ids : Emit(t, a)
    \/ \E t \in EmitTypes, a \in Ids : EmitMarked(t, a)
    \/ \E i \in 1..Len(events) : Reemit(i)
    \/ LoopRaise
    \/ LoopBody
    \/ AfterLoop
    \/ \E t \in EmitTypes, a \in Ids : AsyncEmit(t, a)
    \/ \E i \in 1..Len(events) : AsyncReemit(i)
    \/ \E i \in 1..Len(tasks) : RunTask(i)

MarkedSpec == MarkedInit /\ [][MarkedNext]_vars

\* C27: add_event never changes an acted that is already set (by the caller
\* with an explicit timestamp, or by an earlier add_event); it assigns the
\* current time only to events whose acted is None.
C27_EmitKeepsActedOnceSet ==
    [][\A u \in 1..Len(acted) : acted[u] # Null => acted'[u] = acted[u]]_vars

\* ------------------------------------------- Agent.do, Agent.act_events
\* def add_event(self, event): the parameters that a call has to supply
add_event_parameters == <<"event">>

\* a call binds its positional arguments to the parameters, or raises
BindArguments(parameters, arguments) ==
    IF Len(arguments) = Len(parameters) THEN "bound" ELSE "TypeError"

\* RecordedAction(): done is False, run() has not been called
NewAction == [count |-> 0, at |-> 0]

\* Action.run() on Action object a, the log having log_len events
Action_run(rs, a, log_len) ==
    [rs EXCEPT ![a] = [count |-> @.count + 1, at |-> log_len]]

\* Agent.do(action, episode) with a new Action: action.run(), then the
\* Event is created and episode.add_event(self, action_event) is called,
\* with one argument more than add_event takes
Agent_do(h) ==
    /\ pc = "idle"
    /\ Len(emits) + Len(issued) < MaxEmits
    /\ LET a == Len(runs) + 1
           e == Event(NextUid, Action, agent_id[h])
       IN  /\ runs' = Action_run(Append(runs, NewAction), a, Len(events))
           /\ acted' = Append(acted, Null)
           /\ BindArguments(add_event_parameters, <<h, e>>) = "TypeError"
           /\ issued' = Append(issued,
                  [agent |-> h, via |-> "do", outcome |-> "TypeError",
                   events |-> <<[event |-> e, action |-> a]>>])
    /\ UNCHANGED <<codec, config, episode_meta, events, clock, pc, new_events,
                   count, tasks, emits, calls>>

\* the lists of events passed to act_events, by type
ActLists == {<<Action>>, <<Utterance, Action>>, <<Action, Action>>}

\* the number of Action events among the first n events of a list
RECURSIVE ActionsAmong(_, _)
ActionsAmong(types, n) ==
    IF n = 0 THEN 0
    ELSE ActionsAmong(types, n - 1) + (IF types[n] = Action THEN 1 ELSE 0)

\* Agent.act_events(events, episode) on new events, each Action event with
\* a new Action: the first iteration runs the Action if the first event is
\* one, and its episode.add_event(self, e) raises as in do
Agent_act_events(h, types) ==
    /\ pc = "idle"
    /\ Len(emits) + Len(issued) < MaxEmits
    /\ LET es == [i \in 1..Len(types) |->
                     [event |-> Event(NextUid + i - 1, types[i], agent_id[h]),
                      action |-> IF types[i] = Action
                                 THEN Len(runs) + ActionsAmong(types, i)
                                 ELSE 0]]
           created == runs \o [i \in 1..ActionsAmong(types, Len(types)) |-> NewAction]
       IN  /\ runs' = IF es[1].event.type = Action
                      THEN Action_run(created, es[1].action, Len(events))
                      ELSE created
           /\ acted' = acted \o [i \in 1..Len(types) |-> Null]
           /\ BindArguments(add_event_parameters, <<h, es[1].event>>) = "TypeError"
           /\ issued' = Append(issued,
                  [agent |-> h, via |-> "act_events", outcome |-> "TypeError",
                   events |-> es])
    /\ UNCHANGED <<codec, config, episode_meta, events, clock, pc, new_events,
                   count, tasks, emits, calls>>

\* two agents that do not answer, and callers that use both the episode's
\* add_event and the agents' do and act_events
AgentInit ==
    /\ Init
    /\ Silent

AgentNext ==
    \/ \E t \in EmitTypes, a \in Ids : Emit(t, a)
    \/ LoopRaise
    \/ LoopBody
    \/ AfterLoop
    \/ \E t \in EmitTypes, a \in Ids : AsyncEmit(t, a)
    \/ \E i \in 1..Len(tasks) : RunTask(i)
    \/ \E h \in Handles : Agent_do(h)
    \/ \E h \in Handles, types \in ActLists : Agent_act_events(h, types)

AgentSpec == AgentInit /\ [][AgentNext]_vars

\* C21: when an agent has issued an Action through do or act_events, the
\* Action has been run exactly once, its event is in the log, and the run
\* came before the append.
C21_ActionRunOnceBeforeAppend ==
    \A k \in 1..Len(issued) : \A j \in 1..Len(issued[k].events) :
        LET x == issued[k].events[j]
        IN  x.event.type = Action =>
                /\ runs[x.action].count = 1
                /\ \E i \in 1..Len(events) :
                       /\ events[i] = x.event
                       /\ runs[x.action].at < i

\* ================================== asynchronous dispatcher, continued
\* the index of a logged event (every Event object is logged once here)
IndexOf(e) == CHOOSE i \in 1..Len(events) : events[i] = e

\* C31: on the asynchronous dispatcher a Leave event cancels nothing: a
\* created task leaves the event loop only by being run, a task can run
\* whatever the log holds, and the responses to an event logged before a
\* Leave that are returned after it are appended after the Leave.
C31_LeaveDoesNotCancelTasks ==
    /\ [](mode = "async" =>
            /\ (tasks # <<>> /\ Len(events) < MaxAsyncLog) =>
                   \A i \in 1..Len(tasks) : ENABLED RunTask(i)
            /\ \A c \in 1..Len(calls) : \A l \in 1..calls[c].at :
                   (events[l].type = Leave /\ IndexOf(calls[c].event) < l) =>
                       \A j \in 1..Len(calls[c].resp) :
                           (\A k \in 1..j : Registered(calls[c].resp[k].agent)) =>
                               /\ calls[c].resp[j] \in Range(events)
                               /\ IndexOf(calls[c].resp[j]) > l)
    /\ [][mode = "async" =>
            \A t \in 1..Len(tasks) :
                \/ \E u \in 1..Len(tasks') : tasks'[u] = tasks[t]
                \/ /\ Len(calls') = Len(calls) + 1
                   /\ Last(calls').event = tasks[t].event
                   /\ Last(calls').to = tasks[t].agent]_vars

C31_Witness ==
    /\ mode = "async"
    /\ \E c \in 1..Len(calls) : \E l \in 1..calls[c].at :
           /\ events[l].type = Leave
           /\ IndexOf(calls[c].event) < l
           /\ calls[c].resp # <<>>
           /\ calls[c].resp[1] \in Range(events)
           /\ IndexOf(calls[c].resp[1]) > l

\* the responses that add_event is called with before the task ends: all of
\* them, or those up to and including the first with an unregistered issuer
RECURSIVE UpToRejected(_)
UpToRejected(es) ==
    IF es = <<>> THEN <<>>
    ELSE IF ~Registered(Head(es).agent) THEN <<Head(es)>>
    ELSE <<Head(es)>> \o UpToRejected(Tail(es))

RECURSIVE add_event_loop(_, _, _, _)
add_event_loop(queue, evs, cnt, uid) ==
    IF queue = <<>> THEN evs
    ELSE IF ~KnownAgent(Head(queue).agent) THEN evs
    ELSE LET e == Head(queue)
             a == other_agents(agent_by_id[e.agent])[1]
             response_events == event_callback(a, e, uid)
             rest == new_events_extend(Tail(queue), response_events)
         IN  IF CapExceeded(cnt + 1)
             THEN events_extend(events_append(evs, e), rest)
             ELSE add_event_loop(rest, events_append(evs, e), cnt + 1,
                                 uid + Len(response_events))

\* the log of a new LiveEpisode after add_event(e)
LiveEpisode_add_event(e) == add_event_loop(<<e>>, <<>>, 0, e.uid + 1)

\* the tasks have been run in the order of their creation, which is the
\* order in which their events were logged
FifoSchedule ==
    \A c, d \in 1..Len(calls) :
        c < d => IndexOf(calls[c].event) < IndexOf(calls[d].event)

\* C33: after one external add_event whose cascade ends below the cap, the
\* asynchronous dispatcher, its tasks run in creation order until none is
\* left, has the log that the synchronous dispatcher has after the same
\* call with the same participants.
C33_AsyncFifoLogEqualsSyncLog ==
    (/\ mode = "async"
     /\ Len(emits) = 1
     /\ tasks = <<>>
     /\ FifoSchedule) =>
        events = LiveEpisode_add_event(emits[1].event)

\* the rows of the compact log whose timestamp was rewritten as relative
RelativeRows ==
    IF Applied("load_relative") THEN {op[2]} ELSE op[2]..Len(ep.events)
\* the seconds that the relative timestamps written into the rows stand for
OffsetSeconds(token) ==
    CASE token = <<"5", "s">> -> 5
      [] token = <<"1", "5">> -> 15
      [] token = <<"2", "m">> -> 120

\* C34: when a compact log that loads with absolute timestamps is loaded with
\* some of its rows rewritten as relative offsets, every absolute row decodes
\* to its own timestamp regardless of the rows before it, and every relative
\* row decodes to the decoded timestamp of the row just before it plus its
\* offset, the first row to the creation timestamp of the log plus its offset.
C34_RelativeOffsetsAccumulate ==
    (/\ Applied("load_relative") \/ Applied("load_relative_from")
     /\ ~IsRaise(Reloaded("compact"))) =>
        /\ isinstance(res, "Episode")
        /\ Len(res.events) = Len(ep.events)
        /\ \A j \in 1..Len(ep.events) :
               res.events[j].timestamp =
                   IF j \notin RelativeRows THEN ep.events[j].timestamp
                   ELSE Datetime((IF j = 1 THEN ep.timestamp
                                  ELSE res.events[j - 1].timestamp).t
                                 + OffsetSeconds(op[3]))

\* C35: loading a compact log one of whose rows has a timestamp that is
\* neither an ISO string nor a plain integer nor a token of the units d, h,
\* m, s in that order and nothing else raises an error, it returns no Episode.
C35_UnparsableTimestampFailsToLoad ==
    Applied("load_unparsable") => IsRaise(res)

\* ------------------------------------------------ due/util/test_time.py
\* the largest number of seconds given as an int or as a digit string
MaxSeconds == 4
\* the numbers written before the units of a token
Amounts == {0, 3, 22}

\* the text of a token: the units of present in the order d, h, m, s, each
\* after its number
UnitToken(present, amount, unit) ==
    IF unit \in present THEN Append(Decimal(amount[unit]), unit) ELSE <<>>
DurationToken(present, amount) ==
    UnitToken(present, amount, "d") \o UnitToken(present, amount, "h")
        \o UnitToken(present, amount, "m") \o UnitToken(present, amount, "s")
Present == (SUBSET Range(TIMEDELTA_UNITS)) \ {{}}
AmountsOfUnits == [Range(TIMEDELTA_UNITS) -> Amounts]

\* the arguments of parse_timedelta: ints, digit strings, tokens, and values
\* that are none of these
Deltas ==
    {Number(n) : n \in -2..MaxSeconds}
        \cup {Text(Decimal(n)) : n \in 0..MaxSeconds}
        \cup {Text(DurationToken(present, amount)) :
                  present \in Present, amount \in AmountsOfUnits}
        \cup {PyNone, Text(<<>>), Text(<<"x">>), Text(<<"3">> \o <<"x">>)}

\* parse_timedelta(delta)
ParseTimedelta(delta) ==
    /\ op = <<"none">>
    /\ res' = parse_timedelta(delta)
    /\ op' = <<"parse_timedelta", delta>>
    /\ UNCHANGED <<ep, dispatcher>>

ParseNext == \E delta \in Deltas : ParseTimedelta(delta)

ParseSpec == CodecInit /\ [][ParseNext]_vars

\* C36: parse_timedelta of an int or a digit string n is n seconds, of a
\* token with a non-empty subset of the units d, h, m, s in that order it is
\* days*86400 + hours*3600 + minutes*60 + seconds with 0 for the absent
\* units, and no timedelta it returns is negative.
C36_ParseTimedeltaSecondsNeverNegative ==
    Applied("parse_timedelta") =>
        /\ isinstance(op[2], "number") => res = op[2]
        /\ \A n \in 0..MaxSeconds :
               op[2] = Text(Decimal(n)) => res = Number(n)
        /\ \A present \in Present, amount \in AmountsOfUnits :
               op[2] = Text(DurationToken(present, amount)) =>
                   res = Number(
                       (IF "d" \in present THEN amount["d"] ELSE 0) * 86400
                       + (IF "h" \in present THEN amount["h"] ELSE 0) * 3600
                       + (IF "m" \in present THEN amount["m"] ELSE 0) * 60
                       + (IF "s" \in present THEN amount["s"] ELSE 0))
        /\ isinstance(res, "number") => res.n >= 0

\* C37: the events of an Episode returned by load, from the standard or the
\* compact form, are all not acted, also when every event of the saved
\* Episode was acted, and the loaded Episode compares equal to the saved one.
C37_LoadedEventsNotActedAndEqual ==
    (Applied("save_load") /\ isinstance(res, "Episode")) =>
        /\ \A i \in 1..Len(res.events) : res.events[i].acted = PyNone
        /\ Episode_eq(res, ep) = "True"

\* C38: every step of an add_event call, on either dispatcher and whether
\* the call returns or raises, leaves the Episode's id, timestamp, starter_id
\* and invited_id, the two Agent references and the id-to-Agent lookup as
\* they were, and changes the acted of no Event object but the ones it
\* appends to the log.
C38_AddEventChangesOnlyEventsAndActed ==
    [][/\ episode_meta' = episode_meta
       /\ \A u \in 1..Len(acted) :
              acted'[u] # acted[u] =>
                  \E i \in (Len(events) + 1)..Len(events') : events'[i].uid = u]_vars

\* a call has raised, a call has returned, and the log has events
C38_Witness ==
    /\ \E k \in 1..Len(emits) : emits[k].outcome = "raised"
    /\ \E k \in 1..Len(emits) : emits[k].outcome = "returned"
    /\ Len(events) >= 2
    /\ \E u \in 1..Len(acted) : acted[u] # Null
    /\ episode_meta = <<"e0", 0, agent_id["alice"], agent_id["bob"], "alice",
                        "bob", agent_by_id>>
    /\ DOMAIN agent_by_id = {agent_id["alice"], agent_id["bob"]}

====
